---- MODULE Spec2Model ----
(***************************************************************************)
(* Model of the Shopify GA4 custom web pixel (src/index.js).               *)
(*                                                                         *)
(* Representation of JavaScript values                                     *)
(*   string            a tuple of one-character strings, <<"a", "b">>      *)
(*   optional value    None (undefined / null) or Some(v)                  *)
(*   number            NaN or Num(n), n counted in 1/Scale units           *)
(*   object            a record whose optional properties are optionals    *)
(*   call that throws  Threw, a call that returns v is Ok(v)               *)
(***************************************************************************)
EXTENDS Integers, Sequences, FiniteSets, TLC

VARIABLES
    call,         \* frame of a direct call of a formatter: function and arguments
    ret,          \* None while the call runs, Some(result) once it returned
    gtag,         \* typeof window.gtag once the script has been loaded
    delivered,    \* number of lifecycle events the source has delivered
    lastEvent,    \* the lifecycle event delivered last
    lastOutcome,  \* how its listener ended: "returned" or "raised"
    lastCall,     \* the window.gtag('event', ...) call made for it, if any
    sinkLog,      \* every window.gtag('event', ...) call: delivery number, fault
    errorLog      \* delivery numbers for which console.error was called

vars == <<call, ret, gtag, delivered, lastEvent, lastOutcome, lastCall, sinkLog, errorLog>>

listenerVars == <<gtag, delivered, lastEvent, lastOutcome, lastCall, sinkLog, errorLog>>

(***************************************************************************)
(* Bounds                                                                  *)
(***************************************************************************)
MaxTitleLen == 4
MaxSegments == 2
MaxVariantTitleLen == 1
MaxSkuLen == 3
MaxCollections == 5
MaxAmountLen == 3
MaxLines == 2
MaxEvents == 2

(***************************************************************************)
(* JavaScript values                                                       *)
(***************************************************************************)
None == <<>>
Some(v) == <<v>>

\* a string that is neither undefined, null nor ''
Truthy(opt) == opt # None /\ opt[1] # <<>>

\* a || b on optional strings
OrElse(opt, dflt) == IF Truthy(opt) THEN opt[1] ELSE dflt

Threw == [ok |-> FALSE, val |-> <<>>]
Ok(v) == [ok |-> TRUE, val |-> v]

Scale == 10 ^ MaxAmountLen
NaN == <<>>
Num(n) == <<n>>

\* a * b and a + b on numbers: NaN is absorbing
Times(a, q) == IF a = NaN THEN NaN ELSE Num(a[1] * q)
Plus(a, b) == IF a = NaN \/ b = NaN THEN NaN ELSE Num(a[1] + b[1])

StringsUpTo(alphabet, n) == UNION {[1..k -> alphabet] : k \in 0..n}

EndsWith(s, suffix) ==
    /\ Len(suffix) <= Len(s)
    /\ SubSeq(s, Len(s) - Len(suffix) + 1, Len(s)) = suffix

\* String.prototype.slice(0, -n) for n > 0
SliceOffEnd(s, n) == SubSeq(s, 1, Len(s) - n)

IsSpace(c) == c = " "

RECURSIVE TrimStart(_)
TrimStart(s) ==
    IF s # <<>> /\ IsSpace(Head(s)) THEN TrimStart(Tail(s)) ELSE s

RECURSIVE TrimEnd(_)
TrimEnd(s) ==
    IF s # <<>> /\ IsSpace(s[Len(s)]) THEN TrimEnd(SubSeq(s, 1, Len(s) - 1)) ELSE s

\* String.prototype.trim
Trim(s) == TrimEnd(TrimStart(s))

Digits == <<"0", "1", "2", "3", "4", "5", "6", "7", "8", "9">>
IsDigit(c) == \E d \in 1..10 : Digits[d] = c
DigitValue(c) == (CHOOSE d \in 1..10 : Digits[d] = c) - 1

RECURSIVE DigitPrefix(_)
DigitPrefix(s) ==
    IF s # <<>> /\ IsDigit(Head(s)) THEN <<Head(s)>> \o DigitPrefix(Tail(s)) ELSE <<>>

RECURSIVE DigitsValue(_)
DigitsValue(ds) ==
    IF ds = <<>> THEN 0
    ELSE 10 * DigitsValue(SubSeq(ds, 1, Len(ds) - 1)) + DigitValue(ds[Len(ds)])

\* parseFloat of a string of digits, '.', blanks and other characters:
\* leading blanks are skipped, the longest numeric prefix is read, and a
\* string without one gives NaN
ParseFloatString(s) ==
    LET t == TrimStart(s)
        int == DigitPrefix(t)
        rest == SubSeq(t, Len(int) + 1, Len(t))
        frac == IF rest # <<>> /\ Head(rest) = "." THEN DigitPrefix(Tail(rest)) ELSE <<>>
    IN  IF int = <<>> /\ frac = <<>> THEN NaN
        ELSE Num(DigitsValue(int) * Scale
                 + (DigitsValue(frac) * Scale) \div (10 ^ Len(frac)))

\* parseFloat(x) where x is an optional string (parseFloat(undefined) is NaN)
parseFloat(opt) == IF opt = None THEN NaN ELSE ParseFloatString(opt[1])

(***************************************************************************)
(* CONFIG                                                                  *)
(***************************************************************************)
CURRENCY == <<"E", "U", "R">>
FALLBACK_BRAND == <<"B", "r", "a", "n", "d", " ", "N", "a", "m", "e">>

SKU_PREFIX == <<"S", "K", "U", "_">>
SHOPIFY_PREFIX == <<"s", "h", "o", "p", "i", "f", "y", "_", "D", "E", "_">>
SUFFIX_SEPARATOR == <<" ", "-", " ">>
DefaultQuantity == 1

(***************************************************************************)
(* Item formatter                                                          *)
(***************************************************************************)
cleanProductName_recursive(productTitle, variantTitle) ==
    IF ~Truthy(variantTitle) \/ ~Truthy(productTitle) THEN productTitle
    ELSE LET suffix == SUFFIX_SEPARATOR \o variantTitle[1]
             RECURSIVE Strip(_)
             Strip(t) == IF EndsWith(t, suffix) THEN Strip(SliceOffEnd(t, Len(suffix))) ELSE t
         IN  Some(Strip(productTitle[1]))

cleanProductName_unstripped(productTitle, variantTitle) == productTitle

cleanProductName(productTitle, variantTitle) ==
    IF ~Truthy(variantTitle) \/ ~Truthy(productTitle) THEN productTitle
    ELSE LET suffix == SUFFIX_SEPARATOR \o variantTitle[1]
         IN  IF EndsWith(productTitle[1], suffix)
             THEN Some(SliceOffEnd(productTitle[1], Len(suffix)))
             ELSE productTitle

createItemId_untrimmed(product, variant) ==
    IF Truthy(variant.sku)
    THEN SKU_PREFIX \o variant.sku[1]
    ELSE SHOPIFY_PREFIX \o product.id \o <<"_">> \o variant.id

createItemId(product, variant) ==
    IF Truthy(variant.sku) /\ Trim(variant.sku[1]) # <<>>
    THEN SKU_PREFIX \o variant.sku[1]
    ELSE SHOPIFY_PREFIX \o product.id \o <<"_">> \o variant.id

\* variant.product || variant
ProductOf(variant) ==
    IF variant.product # None THEN variant.product[1]
    ELSE [id |-> variant.id, title |-> variant.title, vendor |-> None,
          type |-> None, collections |-> None]

CollectionTitle_compacted(product, i) ==
    IF product.collections = None THEN None
    ELSE LET collections == SelectSeq(product.collections[1],
                                      LAMBDA c : c # None /\ Truthy(c[1].title))
         IN  IF i > Len(collections) THEN None ELSE collections[i][1].title

\* product.collections?.[i - 1]?.title when it is truthy, else nothing
CollectionTitle(product, i) ==
    IF product.collections = None THEN None
    ELSE LET collections == product.collections[1]
         IN  IF i > Len(collections) THEN None
             ELSE IF collections[i] = None THEN None
             ELSE IF Truthy(collections[i][1].title) THEN collections[i][1].title
             ELSE None

\* lineItem?.discountAllocations?.[0] when it is truthy
FirstDiscountAllocation(lineItem) ==
    IF lineItem = None THEN None
    ELSE IF lineItem[1].discountAllocations = None THEN None
    ELSE IF lineItem[1].discountAllocations[1] = <<>> THEN None
    ELSE Some(lineItem[1].discountAllocations[1][1])

formatItem(variant, quantity, lineItem) ==
    IF variant = None THEN Threw
    ELSE IF variant[1].price = None THEN Threw
    ELSE
      LET v == variant[1]
          product == ProductOf(v)
          discountAllocation == FirstDiscountAllocation(lineItem)
          hasAllocation == discountAllocation # None
      IN  Ok([item_id |-> createItemId(product, v),
              item_name |-> cleanProductName(product.title, v.title),
              item_variant |-> v.title,
              item_brand |-> OrElse(product.vendor, FALLBACK_BRAND),
              item_category |-> OrElse(product.type, <<>>),
              price |-> parseFloat(v.price[1].amount),
              quantity |-> quantity,
              item_category2 |-> CollectionTitle(product, 1),
              item_category3 |-> CollectionTitle(product, 2),
              item_category4 |-> CollectionTitle(product, 3),
              item_category5 |-> CollectionTitle(product, 4),
              discount |->
                  IF hasAllocation /\ discountAllocation[1].amount # None
                                   /\ Truthy(discountAllocation[1].amount[1].amount)
                  THEN Some(parseFloat(discountAllocation[1].amount[1].amount))
                  ELSE None,
              coupon |->
                  IF hasAllocation /\ discountAllocation[1].discountApplication # None
                                   /\ Truthy(discountAllocation[1].discountApplication[1].title)
                  THEN discountAllocation[1].discountApplication[1].title
                  ELSE None])


(***************************************************************************)
(* Collection formatter                                                    *)
(***************************************************************************)
\* lineItem.merchandise || lineItem.variant
VariantOf(lineItem) ==
    IF lineItem.merchandise # None THEN lineItem.merchandise ELSE lineItem.variant

RECURSIVE MapFormatItem(_)
MapFormatItem(lines) ==
    IF lines = <<>> THEN Ok(<<>>)
    ELSE LET first == formatItem(VariantOf(Head(lines)), Head(lines).quantity, Some(Head(lines)))
             rest == MapFormatItem(Tail(lines))
         IN  IF first.ok /\ rest.ok THEN Ok(<<first.val>> \o rest.val) ELSE Threw

\* lineItems is undefined, a value that is not an array, or an array
formatItems(lineItems) ==
    IF lineItems.kind # "array" THEN Ok(<<>>)
    ELSE MapFormatItem(lineItems.items)

(***************************************************************************)
(* Inputs of the formatters                                                *)
(***************************************************************************)
Str_1 == <<"1">>
Str_2 == <<"2">>
Str_A == <<"A">>
Str_B == <<"B">>
Str_Tee == <<"T", "e", "e">>
Str_XS == <<"X", "S">>
Str_Acme == <<"A", "c", "m", "e">>
Str_TeeXS == <<"T", "e", "e", " ", "-", " ", "X", "S">>
Str_Sale == <<"S", "A", "L", "E">>

Money(amount) == Some([amount |-> amount])

Product(id, title, vendor, type, collections) ==
    [id |-> id, title |-> title, vendor |-> vendor, type |-> type,
     collections |-> collections]

Variant(id, title, sku, price, product) ==
    [id |-> id, title |-> title, sku |-> sku, price |-> price, product |-> product]

TitleAlphabet == {" ", "-", "a"}
VariantTitleAlphabet == {"a", "A"}
SkuAlphabet == {" ", "a", "_"}
AmountAlphabet == {"5", ".", "x", " "}

VariantTitleStrings == StringsUpTo(VariantTitleAlphabet, MaxVariantTitleLen)

RECURSIVE Segments(_)
Segments(ws) ==
    IF ws = <<>> THEN <<>> ELSE SUFFIX_SEPARATOR \o Head(ws) \o Segments(Tail(ws))

\* a stem followed by ' - <variant title>' segments, "Tee - a - A"
SegmentedTitles ==
    {stem \o Segments(ws) : stem \in {<<>>, Str_Tee},
                            ws \in StringsUpTo(VariantTitleStrings, MaxSegments)}

ProductTitles ==
    {None} \cup {Some(s) : s \in StringsUpTo(TitleAlphabet, MaxTitleLen) \cup SegmentedTitles}
VariantTitles == {None} \cup {Some(s) : s \in VariantTitleStrings}
Skus == {None} \cup {Some(s) : s \in StringsUpTo(SkuAlphabet, MaxSkuLen)}
Ids == {Str_1, Str_2}
AmountStrings == {None} \cup {Some(s) : s \in StringsUpTo(AmountAlphabet, MaxAmountLen)}

\* an entry of product.collections: a hole, or a collection with its title
CollectionEntries ==
    {None, Some([title |-> Some(<<>>)]), Some([title |-> Some(Str_A)]),
     Some([title |-> Some(Str_B)])}
CollectionLists ==
    {None} \cup {Some(c) : c \in StringsUpTo(CollectionEntries, MaxCollections)}
ProductTypes == {None, Some(<<>>), Some(Str_Tee)}

DiscountAllocations ==
    {None, Some(<<>>),
     Some(<<[amount |-> None, discountApplication |-> None]>>),
     Some(<<[amount |-> Money(Some(<<"1", ".", "5">>)),
            discountApplication |-> Some([title |-> Some(Str_Sale)])]>>),
     Some(<<[amount |-> Money(Some(<<>>)),
            discountApplication |-> Some([title |-> None])],
           [amount |-> Money(Some(<<"5">>)),
            discountApplication |-> Some([title |-> Some(Str_A)])]>>)}

LineItem(merchandise, variant, quantity, discountAllocations) ==
    [merchandise |-> merchandise, variant |-> variant, quantity |-> quantity,
     discountAllocations |-> discountAllocations]

\* variants whose titles vary
NamedVariants ==
    {Variant(Str_1, v, None, Money(Some(<<"5">>)),
             Some(Product(Str_2, t, Some(Str_Acme), None, None)))
        : t \in ProductTitles, v \in VariantTitles}

\* variants whose product type or collections vary
CategorisedVariants ==
    {Variant(Str_1, Some(Str_XS), None, Money(Some(<<"5">>)),
             Some(Product(Str_2, Some(Str_Tee), None, ty, None))) : ty \in ProductTypes}
    \cup {Variant(Str_1, Some(Str_XS), None, Money(Some(<<"5">>)),
                  Some(Product(Str_2, Some(Str_Tee), None, Some(Str_Tee), c)))
             : c \in CollectionLists}

\* variants with and without product, price and price amount
PricedVariants ==
    {Variant(Str_1, Some(Str_XS), Some(Str_A), pr, p)
        : pr \in {None} \cup {Money(a) : a \in AmountStrings},
          p \in {None, Some(Product(Str_2, Some(Str_TeeXS), Some(<<>>), Some(Str_Tee), None))}}

GoodVariant ==
    Variant(Str_1, Some(Str_XS), Some(Str_A), Money(Some(<<"1", ".", "5">>)),
            Some(Product(Str_2, Some(Str_TeeXS), Some(Str_Acme), Some(Str_Tee),
                         Some(<<Some([title |-> Some(Str_A)])>>))))
BareVariant == Variant(Str_2, Some(Str_XS), None, Money(Some(<<"5">>)), None)
UnparsedVariant == Variant(Str_2, Some(Str_XS), None, Money(Some(<<"x">>)), None)
UnpricedVariant == Variant(Str_1, Some(Str_XS), None, None, None)

FormatItemCalls ==
    {<<Some(v), DefaultQuantity, None>>
        : v \in NamedVariants \cup CategorisedVariants \cup PricedVariants}
    \cup {<<Some(v), q, Some(LineItem(Some(v), None, q, d))>>
            : v \in {GoodVariant, BareVariant}, q \in 1..2, d \in DiscountAllocations}
    \cup {<<None, 1, Some(LineItem(None, None, 1, None))>>}

\* cart lines and checkout line items
LineItems ==
    {LineItem(Some(GoodVariant), None, 2, None),
     LineItem(Some(BareVariant), None, 1, Some(<<[amount |-> Money(Some(<<"1", ".", "5">>)), discountApplication |-> Some([title |-> Some(Str_Sale)])]>>)),
     LineItem(None, Some(GoodVariant), 1, None),
     LineItem(Some(UnparsedVariant), None, 1, None),
     LineItem(Some(UnpricedVariant), None, 1, None),
     LineItem(None, None, 1, None),
     LineItem(Some(BareVariant), Some(GoodVariant), 2, None)}

LineItemLists ==
    {[kind |-> "undefined", items |-> <<>>], [kind |-> "string", items |-> <<>>]}
    \cup {[kind |-> "array", items |-> l] : l \in StringsUpTo(LineItems, MaxLines)}

(***************************************************************************)
(* Direct calls of the formatters                                          *)
(***************************************************************************)
NoCall == [fn |-> "none", args |-> <<>>]
NoEvent == [type |-> "none"]

ListenerIdle ==
    /\ gtag = "function"
    /\ delivered = 0
    /\ lastEvent = NoEvent
    /\ lastOutcome = "none"
    /\ lastCall = None
    /\ sinkLog = <<>>
    /\ errorLog = <<>>

InitCleanProductName ==
    /\ call \in {[fn |-> "cleanProductName", args |-> <<t, v>>]
                    : t \in ProductTitles, v \in VariantTitles}
    /\ ret = None
    /\ ListenerIdle

CallCleanProductName ==
    /\ call.fn = "cleanProductName"
    /\ ret = None
    /\ ret' = Some(cleanProductName(call.args[1], call.args[2]))
    /\ UNCHANGED <<call, listenerVars>>

NextCleanProductName == CallCleanProductName

SpecCleanProductName == InitCleanProductName /\ [][NextCleanProductName]_vars

InitCreateItemId ==
    /\ call \in {[fn |-> "createItemId", args |-> <<[id |-> p], [id |-> v, sku |-> s]>>]
                    : p \in Ids, v \in Ids, s \in Skus}
    /\ ret = None
    /\ ListenerIdle

CallCreateItemId ==
    /\ call.fn = "createItemId"
    /\ ret = None
    /\ ret' = Some(createItemId(call.args[1], call.args[2]))
    /\ UNCHANGED <<call, listenerVars>>

NextCreateItemId == CallCreateItemId

SpecCreateItemId == InitCreateItemId /\ [][NextCreateItemId]_vars

InitFormatItem ==
    /\ call \in {[fn |-> "formatItem", args |-> a] : a \in FormatItemCalls}
    /\ ret = None
    /\ ListenerIdle

CallFormatItem ==
    /\ call.fn = "formatItem"
    /\ ret = None
    /\ ret' = Some(formatItem(call.args[1], call.args[2], call.args[3]))
    /\ UNCHANGED <<call, listenerVars>>

NextFormatItem == CallFormatItem

SpecFormatItem == InitFormatItem /\ [][NextFormatItem]_vars

InitFormatItems ==
    /\ call \in {[fn |-> "formatItems", args |-> <<l>>] : l \in LineItemLists}
    /\ ret = None
    /\ ListenerIdle

CallFormatItems ==
    /\ call.fn = "formatItems"
    /\ ret = None
    /\ ret' = Some(formatItems(call.args[1]))
    /\ UNCHANGED <<call, listenerVars>>

NextFormatItems == CallFormatItems

SpecFormatItems == InitFormatItems /\ [][NextFormatItems]_vars


(***************************************************************************)
(* Google tag initialization and dispatcher                                *)
(***************************************************************************)
\* typeof window.gtag after initializeGoogleTag, given its type before
initializeGoogleTag(before) == IF before # "undefined" THEN before ELSE "function"

NoDispatch == [calls |-> <<>>, logged |-> FALSE, raised |-> FALSE]

sendEvent_uncaught(eventName, params, sinkFaults) ==
    IF gtag = "function"
    THEN [calls |-> <<[name |-> eventName, params |-> params, threw |-> sinkFaults]>>,
          logged |-> FALSE,
          raised |-> sinkFaults]
    ELSE NoDispatch

sendEvent_twice(eventName, params, sinkFaults) ==
    IF gtag = "function"
    THEN [calls |-> <<[name |-> eventName, params |-> params, threw |-> sinkFaults]>>
                    \o (IF sinkFaults THEN <<>>
                        ELSE <<[name |-> eventName, params |-> params, threw |-> FALSE]>>),
          logged |-> sinkFaults,
          raised |-> FALSE]
    ELSE NoDispatch

\* the calls of window.gtag('event', ...) made, whether console.error was
\* called, and whether an exception leaves the function
sendEvent(eventName, params, sinkFaults) ==
    IF gtag = "function"
    THEN [calls |-> <<[name |-> eventName, params |-> params, threw |-> sinkFaults]>>,
          logged |-> sinkFaults,
          raised |-> FALSE]
    ELSE NoDispatch

(***************************************************************************)
(* Event mapper: one listener per lifecycle event.  A listener raises,     *)
(* returns without sending, or hands one (name, params) pair to sendEvent. *)
(***************************************************************************)
Raises == [status |-> "raised", name |-> "", params |-> <<>>]
Skips == [status |-> "skipped", name |-> "", params |-> <<>>]
Sends(name, params) == [status |-> "send", name |-> name, params |-> params]

\* list?.[0]?.<field> of an optional array of records, when it is truthy
FirstOf(list, field) ==
    IF list = None THEN None
    ELSE IF list[1] = <<>> THEN None
    ELSE IF Truthy(list[1][1][field]) THEN list[1][1][field]
    ELSE None

RECURSIVE NumberToString(_)
NumberToString(n) ==
    IF n < 10 THEN <<Digits[n + 1]>>
    ELSE NumberToString(n \div 10) \o <<Digits[(n % 10) + 1]>>

\* id.toString() of an order id that is a number or a string
toString(id) == IF id.isNumber THEN NumberToString(id.n) ELSE id.s

page_viewed(event) ==
    Sends("page_view", [page_title |-> event.context.document.title,
                        page_location |-> event.context.document.location.href])

product_viewed(event) ==
    LET item == formatItem(event.data.productVariant, DefaultQuantity, None)
    IN  IF ~item.ok THEN Raises
        ELSE Sends("view_item", [currency |-> CURRENCY,
                                 value |-> item.val.price,
                                 items |-> <<item.val>>])

CartLineEvent(eventName, event) ==
    LET cartLine == event.data.cartLine
        item == formatItem(cartLine.merchandise, cartLine.quantity, None)
    IN  IF ~item.ok THEN Raises
        ELSE Sends(eventName, [currency |-> CURRENCY,
                               value |-> parseFloat(cartLine.cost.totalAmount.amount),
                               items |-> <<item.val>>])

product_added_to_cart(event) == CartLineEvent("add_to_cart", event)

product_removed_from_cart(event) == CartLineEvent("remove_from_cart", event)

RECURSIVE cartValue_priceOnly(_)
cartValue_priceOnly(items) ==
    IF items = <<>> THEN Num(0)
    ELSE Plus(cartValue_priceOnly(SubSeq(items, 1, Len(items) - 1)), items[Len(items)].price)

\* items.reduce((sum, item) => sum + (item.price * item.quantity), 0)
RECURSIVE cartValue(_)
cartValue(items) ==
    IF items = <<>> THEN Num(0)
    ELSE Plus(cartValue(SubSeq(items, 1, Len(items) - 1)),
              Times(items[Len(items)].price, items[Len(items)].quantity))

cart_viewed(event) ==
    LET cart == event.data.cart
    IN  IF cart = None THEN Skips
        ELSE IF cart[1].lines.kind = "undefined" THEN Skips
        ELSE LET items == formatItems(cart[1].lines)
             IN  IF ~items.ok THEN Raises
                 ELSE Sends("view_cart", [currency |-> CURRENCY,
                                          value |-> cartValue(items.val),
                                          items |-> items.val])

\* checkout.discountApplications?.[0]?.title
CouponOf(checkout) == FirstOf(checkout.discountApplications, "title")

checkout_started(event) ==
    LET checkout == event.data.checkout
        items == formatItems(checkout.lineItems)
    IN  IF ~items.ok THEN Raises
        ELSE IF checkout.totalPrice = None THEN Raises
        ELSE Sends("begin_checkout",
                   [currency |-> OrElse(checkout.currencyCode, CURRENCY),
                    value |-> parseFloat(checkout.totalPrice[1].amount),
                    items |-> items.val,
                    coupon |-> CouponOf(checkout)])

checkout_shipping_info_submitted(event) ==
    LET checkout == event.data.checkout
        items == formatItems(checkout.lineItems)
        optionTitle == IF checkout.delivery = None THEN None
                       ELSE FirstOf(checkout.delivery[1].selectedDeliveryOptions, "title")
        lineTitle == IF checkout.shippingLine = None THEN None
                     ELSE checkout.shippingLine[1].title
    IN  IF ~items.ok THEN Raises
        ELSE IF checkout.totalPrice = None THEN Raises
        ELSE Sends("add_shipping_info",
                   [currency |-> OrElse(checkout.currencyCode, CURRENCY),
                    value |-> parseFloat(checkout.totalPrice[1].amount),
                    shipping_tier |-> OrElse(optionTitle, OrElse(lineTitle, <<>>)),
                    items |-> items.val,
                    coupon |-> CouponOf(checkout)])

payment_info_submitted(event) ==
    LET checkout == event.data.checkout
        items == formatItems(checkout.lineItems)
    IN  IF ~items.ok THEN Raises
        ELSE IF checkout.totalPrice = None THEN Raises
        ELSE Sends("add_payment_info",
                   [currency |-> OrElse(checkout.currencyCode, CURRENCY),
                    value |-> parseFloat(checkout.totalPrice[1].amount),
                    items |-> items.val,
                    payment_type |-> FirstOf(checkout.transactions, "gateway"),
                    coupon |-> CouponOf(checkout)])

\* parseFloat(money?.amount || 0)
AmountOrZero(money) ==
    IF money = None THEN Num(0)
    ELSE IF Truthy(money[1].amount) THEN parseFloat(money[1].amount)
    ELSE Num(0)

checkout_completed(event) ==
    LET checkout == event.data.checkout
        order == checkout.order
        items == formatItems(checkout.lineItems)
    IN  IF ~items.ok THEN Raises
        ELSE IF order = None THEN Raises
        ELSE IF order[1].id = None THEN Raises
        ELSE IF checkout.totalPrice = None THEN Raises
        ELSE IF checkout.shippingLine # None /\ checkout.shippingLine[1].price = None
             THEN Raises
        ELSE Sends("purchase",
                   [transaction_id |-> toString(order[1].id[1]),
                    currency |-> OrElse(checkout.currencyCode, CURRENCY),
                    value |-> parseFloat(checkout.totalPrice[1].amount),
                    tax |-> AmountOrZero(checkout.totalTax),
                    shipping |-> IF checkout.shippingLine = None THEN Num(0)
                                 ELSE AmountOrZero(checkout.shippingLine[1].price),
                    items |-> items.val,
                    coupon |-> CouponOf(checkout)])

search_submitted(event) ==
    Sends("search", [search_term |-> event.data.searchResult.query])

Listener(type, event) ==
    CASE type = "page_viewed" -> page_viewed(event)
      [] type = "product_viewed" -> product_viewed(event)
      [] type = "product_added_to_cart" -> product_added_to_cart(event)
      [] type = "product_removed_from_cart" -> product_removed_from_cart(event)
      [] type = "cart_viewed" -> cart_viewed(event)
      [] type = "checkout_started" -> checkout_started(event)
      [] type = "checkout_shipping_info_submitted" -> checkout_shipping_info_submitted(event)
      [] type = "payment_info_submitted" -> payment_info_submitted(event)
      [] type = "checkout_completed" -> checkout_completed(event)
      [] type = "search_submitted" -> search_submitted(event)

(***************************************************************************)
(* Lifecycle events the source delivers                                    *)
(***************************************************************************)
Str_USD == <<"U", "S", "D">>
Str_Std == <<"S", "t", "d">>
Str_Express == <<"E", "x", "p", "r", "e", "s", "s">>
Str_Card == <<"c", "a", "r", "d">>
Str_Home == <<"/">>
Amount_5 == <<"5">>
Amount_1_5 == <<"1", ".", "5">>
Amount_x == <<"x">>

Undefined == [kind |-> "undefined", items |-> <<>>]
NotAnArray == [kind |-> "string", items |-> <<>>]
Array(items) == [kind |-> "array", items |-> items]

Line_Good == LineItem(Some(GoodVariant), None, 2, None)
Line_Discounted ==
    LineItem(Some(BareVariant), None, 1,
             Some(<<[amount |-> Money(Some(Amount_1_5)),
                    discountApplication |-> Some([title |-> Some(Str_Sale)])]>>))
Line_Unparsed == LineItem(Some(UnparsedVariant), None, 1, None)
Line_NoVariant == LineItem(None, None, 1, None)

CartLines == {Line_Good, Line_Discounted, Line_Unparsed, Line_NoVariant}
CartLineLists ==
    {Undefined, NotAnArray} \cup {Array(l) : l \in StringsUpTo(CartLines, MaxLines)}

Checkout(lineItems, currencyCode, totalTax, shippingLine, order, discounts, delivery, transactions) ==
    [lineItems |-> lineItems, currencyCode |-> currencyCode,
     totalPrice |-> Money(Some(Amount_5)), totalTax |-> totalTax,
     shippingLine |-> shippingLine, order |-> order,
     discountApplications |-> discounts, delivery |-> delivery,
     transactions |-> transactions]

CheckoutLineLists == {Undefined, Array(<<Line_Good, Line_Discounted>>), Array(<<Line_NoVariant>>)}
CurrencyCodes == {None, Some(Str_USD)}
DiscountApplications == {None, Some(<<>>), Some(<<[title |-> Some(Str_Sale)]>>)}
Deliveries ==
    {None, Some([selectedDeliveryOptions |-> None]),
     Some([selectedDeliveryOptions |-> Some(<<>>)]),
     Some([selectedDeliveryOptions |-> Some(<<[title |-> Some(Str_Express)]>>)])}
ShippingLines ==
    {None, Some([title |-> Some(Str_Std), price |-> None]),
     Some([title |-> Some(Str_Std), price |-> Money(None)]),
     Some([title |-> None, price |-> Money(Some(Amount_1_5))])}
TotalTaxes == {None, Money(None), Money(Some(Amount_1_5)), Money(Some(Amount_x))}
Transactions == {None, Some(<<>>), Some(<<[gateway |-> Some(Str_Card)]>>)}
Orders ==
    {None, Some([id |-> None]),
     Some([id |-> Some([isNumber |-> TRUE, n |-> 1042, s |-> <<>>])]),
     Some([id |-> Some([isNumber |-> FALSE, n |-> 0, s |-> Str_A])])}

PageViewedEvents ==
    {[context |-> [document |-> [title |-> t, location |-> [href |-> Str_Home]]]]
        : t \in {<<>>, Str_Tee}}

ProductViewedEvents ==
    {[data |-> [productVariant |-> Some(v)]]
        : v \in {GoodVariant, BareVariant, UnparsedVariant, UnpricedVariant}}

CartLineEvents ==
    {[data |-> [cartLine |-> [merchandise |-> Some(v), quantity |-> q,
                              cost |-> [totalAmount |-> [amount |-> Some(a)]]]]]
        : v \in {GoodVariant, UnpricedVariant}, q \in 1..2, a \in {Amount_5, Amount_x}}

CartViewedEvents ==
    {[data |-> [cart |-> None]]}
    \cup {[data |-> [cart |-> Some([lines |-> l])]] : l \in CartLineLists}

CheckoutStartedEvents ==
    {[data |-> [checkout |-> Checkout(l, c, None, None, None, d, None, None)]]
        : l \in CheckoutLineLists, c \in CurrencyCodes, d \in DiscountApplications}

ShippingInfoEvents ==
    {[data |-> [checkout |-> Checkout(Array(<<Line_Good>>), None, None, sl, None, d, dl, None)]]
        : sl \in ShippingLines, dl \in Deliveries,
          d \in {None, Some(<<[title |-> Some(Str_Sale)]>>)}}

PaymentInfoEvents ==
    {[data |-> [checkout |-> Checkout(Array(<<Line_Good>>), c, None, None, None, d, None, t)]]
        : c \in CurrencyCodes, d \in DiscountApplications, t \in Transactions}

CheckoutCompletedEvents ==
    {[data |-> [checkout |-> Checkout(l, None, tt, sl, o, d, None, None)]]
        : l \in {Array(<<Line_Good>>)}, tt \in TotalTaxes, sl \in ShippingLines,
          o \in Orders, d \in {None, Some(<<[title |-> Some(Str_Sale)]>>)}}

SearchSubmittedEvents ==
    {[data |-> [searchResult |-> [query |-> q]]] : q \in {<<>>, Str_Tee}}

(***************************************************************************)
(* The subscribed listeners at work                                        *)
(***************************************************************************)
Init ==
    /\ call = NoCall
    /\ ret = None
    /\ gtag \in {initializeGoogleTag(before) : before \in {"undefined", "function", "object"}}
    /\ delivered = 0
    /\ lastEvent = NoEvent
    /\ lastOutcome = "none"
    /\ lastCall = None
    /\ sinkLog = <<>>
    /\ errorLog = <<>>

\* the source may deliver one more event to a subscribed listener
Listening == call = NoCall /\ delivered < MaxEvents

\* the listener state after the source delivered an event whose listener
\* mapped it to `mapped` and, unless it raised or returned early, sent it
Delivery(type, event, mapped, sinkFaults) ==
    LET sent == IF mapped.status = "send"
                THEN sendEvent(mapped.name, mapped.params, sinkFaults)
                ELSE NoDispatch
    IN  [delivered |-> delivered + 1,
         lastEvent |-> [type |-> type, event |-> event],
         lastOutcome |-> IF mapped.status = "raised" \/ sent.raised
                         THEN "raised" ELSE "returned",
         lastCall |-> IF sent.calls = <<>> THEN None
                      ELSE Some([name |-> sent.calls[1].name,
                                 params |-> sent.calls[1].params]),
         sinkLog |-> sinkLog \o [i \in 1..Len(sent.calls) |->
                                    [seq |-> delivered + 1, threw |-> sent.calls[i].threw]],
         errorLog |-> IF sent.logged THEN Append(errorLog, delivered + 1) ELSE errorLog]

PageViewed ==
    /\ Listening
    /\ \E event \in PageViewedEvents, sinkFaults \in BOOLEAN :
         \E mapped \in {page_viewed(event)} :
         \E after \in {Delivery("page_viewed", event, mapped, sinkFaults)} :
             /\ delivered' = after.delivered
             /\ lastEvent' = after.lastEvent
             /\ lastOutcome' = after.lastOutcome
             /\ lastCall' = after.lastCall
             /\ sinkLog' = after.sinkLog
             /\ errorLog' = after.errorLog
    /\ UNCHANGED <<call, ret, gtag>>

ProductViewed ==
    /\ Listening
    /\ \E event \in ProductViewedEvents, sinkFaults \in BOOLEAN :
         \E mapped \in {product_viewed(event)} :
         \E after \in {Delivery("product_viewed", event, mapped, sinkFaults)} :
             /\ delivered' = after.delivered
             /\ lastEvent' = after.lastEvent
             /\ lastOutcome' = after.lastOutcome
             /\ lastCall' = after.lastCall
             /\ sinkLog' = after.sinkLog
             /\ errorLog' = after.errorLog
    /\ UNCHANGED <<call, ret, gtag>>

ProductAddedToCart ==
    /\ Listening
    /\ \E event \in CartLineEvents, sinkFaults \in BOOLEAN :
         \E mapped \in {product_added_to_cart(event)} :
         \E after \in {Delivery("product_added_to_cart", event, mapped, sinkFaults)} :
             /\ delivered' = after.delivered
             /\ lastEvent' = after.lastEvent
             /\ lastOutcome' = after.lastOutcome
             /\ lastCall' = after.lastCall
             /\ sinkLog' = after.sinkLog
             /\ errorLog' = after.errorLog
    /\ UNCHANGED <<call, ret, gtag>>

ProductRemovedFromCart ==
    /\ Listening
    /\ \E event \in CartLineEvents, sinkFaults \in BOOLEAN :
         \E mapped \in {product_removed_from_cart(event)} :
         \E after \in {Delivery("product_removed_from_cart", event, mapped, sinkFaults)} :
             /\ delivered' = after.delivered
             /\ lastEvent' = after.lastEvent
             /\ lastOutcome' = after.lastOutcome
             /\ lastCall' = after.lastCall
             /\ sinkLog' = after.sinkLog
             /\ errorLog' = after.errorLog
    /\ UNCHANGED <<call, ret, gtag>>

CartViewed ==
    /\ Listening
    /\ \E event \in CartViewedEvents, sinkFaults \in BOOLEAN :
         \E mapped \in {cart_viewed(event)} :
         \E after \in {Delivery("cart_viewed", event, mapped, sinkFaults)} :
             /\ delivered' = after.delivered
             /\ lastEvent' = after.lastEvent
             /\ lastOutcome' = after.lastOutcome
             /\ lastCall' = after.lastCall
             /\ sinkLog' = after.sinkLog
             /\ errorLog' = after.errorLog
    /\ UNCHANGED <<call, ret, gtag>>

CheckoutStarted ==
    /\ Listening
    /\ \E event \in CheckoutStartedEvents, sinkFaults \in BOOLEAN :
         \E mapped \in {checkout_started(event)} :
         \E after \in {Delivery("checkout_started", event, mapped, sinkFaults)} :
             /\ delivered' = after.delivered
             /\ lastEvent' = after.lastEvent
             /\ lastOutcome' = after.lastOutcome
             /\ lastCall' = after.lastCall
             /\ sinkLog' = after.sinkLog
             /\ errorLog' = after.errorLog
    /\ UNCHANGED <<call, ret, gtag>>

CheckoutShippingInfoSubmitted ==
    /\ Listening
    /\ \E event \in ShippingInfoEvents, sinkFaults \in BOOLEAN :
         \E mapped \in {checkout_shipping_info_submitted(event)} :
         \E after \in {Delivery("checkout_shipping_info_submitted", event, mapped, sinkFaults)} :
             /\ delivered' = after.delivered
             /\ lastEvent' = after.lastEvent
             /\ lastOutcome' = after.lastOutcome
             /\ lastCall' = after.lastCall
             /\ sinkLog' = after.sinkLog
             /\ errorLog' = after.errorLog
    /\ UNCHANGED <<call, ret, gtag>>

PaymentInfoSubmitted ==
    /\ Listening
    /\ \E event \in PaymentInfoEvents, sinkFaults \in BOOLEAN :
         \E mapped \in {payment_info_submitted(event)} :
         \E after \in {Delivery("payment_info_submitted", event, mapped, sinkFaults)} :
             /\ delivered' = after.delivered
             /\ lastEvent' = after.lastEvent
             /\ lastOutcome' = after.lastOutcome
             /\ lastCall' = after.lastCall
             /\ sinkLog' = after.sinkLog
             /\ errorLog' = after.errorLog
    /\ UNCHANGED <<call, ret, gtag>>

CheckoutCompleted ==
    /\ Listening
    /\ \E event \in CheckoutCompletedEvents, sinkFaults \in BOOLEAN :
         \E mapped \in {checkout_completed(event)} :
         \E after \in {Delivery("checkout_completed", event, mapped, sinkFaults)} :
             /\ delivered' = after.delivered
             /\ lastEvent' = after.lastEvent
             /\ lastOutcome' = after.lastOutcome
             /\ lastCall' = after.lastCall
             /\ sinkLog' = after.sinkLog
             /\ errorLog' = after.errorLog
    /\ UNCHANGED <<call, ret, gtag>>

SearchSubmitted ==
    /\ Listening
    /\ \E event \in SearchSubmittedEvents, sinkFaults \in BOOLEAN :
         \E mapped \in {search_submitted(event)} :
         \E after \in {Delivery("search_submitted", event, mapped, sinkFaults)} :
             /\ delivered' = after.delivered
             /\ lastEvent' = after.lastEvent
             /\ lastOutcome' = after.lastOutcome
             /\ lastCall' = after.lastCall
             /\ sinkLog' = after.sinkLog
             /\ errorLog' = after.errorLog
    /\ UNCHANGED <<call, ret, gtag>>

Next ==
    \/ PageViewed
    \/ ProductViewed
    \/ ProductAddedToCart
    \/ ProductRemovedFromCart
    \/ CartViewed
    \/ CheckoutStarted
    \/ CheckoutShippingInfoSubmitted
    \/ PaymentInfoSubmitted
    \/ CheckoutCompleted
    \/ SearchSubmitted

Spec == Init /\ [][Next]_vars

(***************************************************************************)
(* Properties of the formatters                                            *)
(***************************************************************************)
Returned(fn) == call.fn = fn /\ ret # None

\* C5: createItemId returns 'SKU_' + sku exactly when the sku holds a
\* character that is not white space, and 'shopify_DE_<product.id>_<variant.id>'
\* in every other case (sku absent, empty or blank).
C5_ItemIdBySku ==
    Returned("createItemId") =>
        LET product == call.args[1]
            variant == call.args[2]
            sku == variant.sku
            nonBlank == sku # None /\ \E i \in 1..Len(sku[1]) : sku[1][i] # " "
            composite == SHOPIFY_PREFIX \o product.id \o <<"_">> \o variant.id
        IN  /\ nonBlank => ret[1] = SKU_PREFIX \o sku[1]
            /\ ~nonBlank => ret[1] = composite
            /\ nonBlank <=> SubSeq(ret[1], 1, Len(SKU_PREFIX)) = SKU_PREFIX

C5_BlankSkuFallsBack ==
    /\ Returned("createItemId")
    /\ call.args[2].sku = Some(<<" ", " ">>)
    /\ ret[1] = SHOPIFY_PREFIX \o call.args[1].id \o <<"_">> \o call.args[2].id

\* C6 as stated: for all strings T and V the result is T without the trailing
\* ' - ' + V when T ends with it, and T otherwise.
C6_StripsEveryTrailingSuffix ==
    Returned("cleanProductName") /\ call.args[1] # None /\ call.args[2] # None =>
        LET T == call.args[1][1]
            suffix == SUFFIX_SEPARATOR \o call.args[2][1]
        IN  IF EndsWith(T, suffix)
            THEN ret[1] # None /\ ret[1][1] \o suffix = T
            ELSE ret[1] = Some(T)

\* C6 amended: for a non-empty V the result is T without one trailing
\* ' - ' + V when T ends with it, and T otherwise; for an empty or absent V
\* the result is T unchanged.
C6_StripsOneSuffixOfNonEmptyVariant ==
    Returned("cleanProductName") =>
        LET T == call.args[1]
            V == call.args[2]
        IN  IF V # None /\ V[1] # <<>> /\ T # None
               /\ EndsWith(T[1], SUFFIX_SEPARATOR \o V[1])
            THEN ret[1] # None /\ ret[1][1] \o SUFFIX_SEPARATOR \o V[1] = T[1]
            ELSE ret[1] = T

C6_DoubleSuffixStrippedOnce ==
    /\ Returned("cleanProductName")
    /\ call.args[2] = Some(<<"a">>)
    /\ call.args[1] = Some(Str_Tee \o <<" ", "-", " ", "a", " ", "-", " ", "a">>)
    /\ ret[1] = Some(Str_Tee \o <<" ", "-", " ", "a">>)

ItemOf(r) == r[1].val

\* C7 as stated: item_name never ends with ' - ' + item_variant.
C7_NameNeverEndsWithVariant ==
    Returned("formatItem") /\ ret[1].ok
      /\ ItemOf(ret).item_name # None /\ ItemOf(ret).item_variant # None =>
        ~EndsWith(ItemOf(ret).item_name[1], SUFFIX_SEPARATOR \o ItemOf(ret).item_variant[1])

\* C7 amended: item_name ends with ' - ' + item_variant only when the variant
\* title is empty or the product title carried that suffix at least twice.
C7_NameEndsWithVariantOnlyIfDoubled ==
    Returned("formatItem") /\ ret[1].ok
      /\ ItemOf(ret).item_name # None /\ ItemOf(ret).item_variant # None =>
        LET suffix == SUFFIX_SEPARATOR \o ItemOf(ret).item_variant[1]
            title == ProductOf(call.args[1][1]).title[1]
        IN  EndsWith(ItemOf(ret).item_name[1], suffix) =>
                \/ ItemOf(ret).item_variant[1] = <<>>
                \/ EndsWith(title, suffix \o suffix)

C7_DoubledSuffixKeepsOne ==
    /\ Returned("formatItem") /\ ret[1].ok
    /\ ItemOf(ret).item_variant = Some(<<"a">>)
    /\ call.args[1][1].product[1].title = Some(Str_Tee \o <<" ", "-", " ", "a", " ", "-", " ", "a">>)
    /\ ItemOf(ret).item_name = Some(Str_Tee \o <<" ", "-", " ", "a">>)

CategoryKey(item, n) ==
    CASE n = 1 -> item.item_category2
      [] n = 2 -> item.item_category3
      [] n = 3 -> item.item_category4
      [] n = 4 -> item.item_category5

CollectionsOf(variant) ==
    IF ProductOf(variant).collections = None THEN <<>> ELSE ProductOf(variant).collections[1]

\* C4 as stated: with k collections exactly the first min(k, 4) of
\* item_category2..5 are emitted, each holding the title of its collection,
\* and item_category is product.type or the empty string.
C4_FirstKCategoriesEmitted ==
    Returned("formatItem") /\ ret[1].ok =>
        LET collections == CollectionsOf(call.args[1][1])
            item == ItemOf(ret)
        IN  /\ \A n \in 1..4 :
                 IF n <= Len(collections)
                 THEN /\ CategoryKey(item, n) # None
                      /\ collections[n] # None
                      /\ CategoryKey(item, n) = collections[n][1].title
                 ELSE CategoryKey(item, n) = None
            /\ item.item_category = OrElse(ProductOf(call.args[1][1]).type, <<>>)

\* C4 amended: item_category(N+1), N in 1..4, is emitted exactly when the N-th
\* collection exists and has a non-empty title, and then holds that title,
\* whatever the other collections are; item_category is product.type or the
\* empty string.
C4_CategoriesOfTitledCollections ==
    Returned("formatItem") /\ ret[1].ok =>
        LET collections == CollectionsOf(call.args[1][1])
            item == ItemOf(ret)
            type == ProductOf(call.args[1][1]).type
            titled(n) == /\ n <= Len(collections)
                         /\ collections[n] # None
                         /\ collections[n][1].title \notin {None, Some(<<>>)}
        IN  /\ \A n \in 1..4 :
                 /\ titled(n) => CategoryKey(item, n) = collections[n][1].title
                 /\ ~titled(n) => CategoryKey(item, n) = None
            /\ type \in {None, Some(<<>>)} => item.item_category = <<>>
            /\ type \notin {None, Some(<<>>)} => item.item_category = type[1]

C4_HoleOmitsOnlyItsKey ==
    /\ Returned("formatItem") /\ ret[1].ok
    /\ Len(CollectionsOf(call.args[1][1])) = 5
    /\ CollectionsOf(call.args[1][1])[1] = None
    /\ ItemOf(ret).item_category2 = None
    /\ ItemOf(ret).item_category3 = Some(Str_B)
    /\ ItemOf(ret).item_category5 = Some(Str_A)

\* C8: formatItems never fails; it returns the empty sequence for an input
\* that is missing or not an array, and for an array of n line items the n
\* items formatItem gives for each line's variant, quantity and the line.
C8_FormatItemsNeverFails ==
    Returned("formatItems") =>
        LET lineItems == call.args[1]
        IN  /\ ret[1].ok
            /\ lineItems.kind # "array" => ret[1].val = <<>>
            /\ lineItems.kind = "array" =>
                 /\ Len(ret[1].val) = Len(lineItems.items)
                 /\ \A i \in 1..Len(lineItems.items) :
                      Ok(ret[1].val[i]) =
                          formatItem(VariantOf(lineItems.items[i]),
                                     lineItems.items[i].quantity,
                                     Some(lineItems.items[i]))


(***************************************************************************)
(* Properties of the listeners                                             *)
(***************************************************************************)
SinkCalledForLast == sinkLog # <<>> /\ sinkLog[Len(sinkLog)].seq = delivered

\* the cart_viewed listener returns before mapping: no cart, or no lines
ReturnsEarly(e) ==
    /\ e.type = "cart_viewed"
    /\ \/ e.event.data.cart = None
       \/ e.event.data.cart[1].lines.kind = "undefined"

SinkEventName(type) ==
    CASE type = "page_viewed" -> "page_view"
      [] type = "product_viewed" -> "view_item"
      [] type = "product_added_to_cart" -> "add_to_cart"
      [] type = "product_removed_from_cart" -> "remove_from_cart"
      [] type = "cart_viewed" -> "view_cart"
      [] type = "checkout_started" -> "begin_checkout"
      [] type = "checkout_shipping_info_submitted" -> "add_shipping_info"
      [] type = "payment_info_submitted" -> "add_payment_info"
      [] type = "checkout_completed" -> "purchase"
      [] type = "search_submitted" -> "search"

\* C1: a fault of the sink while an event is sent is caught and logged in
\* sendEvent, the listener returns normally, and after any such fault the
\* sink is still called for the next event whose listener sends a payload.
C1_SinkFaultIsolated ==
    /\ [](SinkCalledForLast /\ sinkLog[Len(sinkLog)].threw =>
            /\ lastOutcome = "returned"
            /\ errorLog # <<>> /\ errorLog[Len(errorLog)] = delivered)
    /\ [][(/\ \E i \in 1..Len(sinkLog) : sinkLog[i].threw
           /\ delivered' = delivered + 1
           /\ gtag' = "function"
           /\ Listener(lastEvent'.type, lastEvent'.event).status = "send")
          => (sinkLog' # <<>> /\ sinkLog'[Len(sinkLog')].seq = delivered')]_vars

C1_CalledAgainAfterFault ==
    /\ Len(sinkLog) = 2
    /\ sinkLog[1].threw /\ sinkLog[1].seq = 1
    /\ sinkLog[2].seq = 2
    /\ errorLog = <<1>>
    /\ lastOutcome = "returned"

\* C2: whatever the event and its payload, the listener returns normally.
C2_ListenersNeverRaise == lastOutcome # "raised"

\* C3 as stated: every delivered event has exactly one sink call, in
\* delivery order.
C3_ExactlyOneCallPerEvent ==
    /\ Len(sinkLog) = delivered
    /\ \A i \in 1..Len(sinkLog) : sinkLog[i].seq = i

\* C3 amended: every delivered event has at most one sink call and the calls
\* are in delivery order; an event has no call exactly when its listener
\* returns early (cart_viewed without cart or lines), raises while mapping,
\* or window.gtag is not a function, and otherwise one call under the event
\* name of its type.
C3_AtMostOneCallInOrder ==
    /\ \A i \in 1..Len(sinkLog) : sinkLog[i].seq \in 1..delivered
    /\ \A i, j \in 1..Len(sinkLog) : i < j => sinkLog[i].seq < sinkLog[j].seq
    /\ delivered > 0 =>
         /\ SinkCalledForLast <=>
              (lastOutcome = "returned" /\ ~ReturnsEarly(lastEvent) /\ gtag = "function")
         /\ SinkCalledForLast <=> lastCall # None
         /\ lastCall # None => lastCall[1].name = SinkEventName(lastEvent.type)

C3_EarlyReturnSendsNothing ==
    /\ delivered = 2
    /\ lastEvent.type = "cart_viewed"
    /\ lastEvent.event.data.cart = None
    /\ lastOutcome = "returned"
    /\ Len(sinkLog) = 1 /\ sinkLog[1].seq = 1

RECURSIVE SumOfPriceTimesQuantity(_)
SumOfPriceTimesQuantity(items) ==
    IF items = <<>> THEN 0
    ELSE Head(items).price[1] * Head(items).quantity + SumOfPriceTimesQuantity(Tail(items))

\* C9: the view_cart payload sent for a cart_viewed event holds the items
\* formatItem gives for the cart lines, in order, and its value is the sum of
\* price * quantity over those items (0 without lines, NaN if a price is).
C9_CartValueIsSumOverItems ==
    lastEvent.type = "cart_viewed" /\ lastCall # None =>
        LET lines == lastEvent.event.data.cart[1].lines.items
            params == lastCall[1].params
        IN  /\ lastCall[1].name = "view_cart"
            /\ Len(params.items) = Len(lines)
            /\ \A i \in 1..Len(lines) :
                 Ok(params.items[i]) =
                     formatItem(VariantOf(lines[i]), lines[i].quantity, Some(lines[i]))
            /\ IF \E i \in 1..Len(params.items) : params.items[i].price = NaN
               THEN params.value = NaN
               ELSE params.value = Num(SumOfPriceTimesQuantity(params.items))
            /\ lines = <<>> => params.value = Num(0)

C9_TwoLinesSummed ==
    /\ lastEvent.type = "cart_viewed"
    /\ lastCall # None
    /\ lastEvent.event.data.cart[1].lines = Array(<<Line_Good, Line_Discounted>>)
    /\ lastCall[1].params.value = Num(8 * Scale)
    /\ lastCall[1].params.items[1].quantity = 2

\* C10: for a checkout_completed event that carries an order id, a purchase
\* payload is sent whose transaction_id is the id as a string and whose tax
\* and shipping are 0 when total tax, the shipping line or its price is
\* absent, and the parsed amount otherwise.
C10_PurchaseDefaultsToZero ==
    /\ lastEvent.type = "checkout_completed"
    /\ gtag = "function"
    /\ lastEvent.event.data.checkout.order # None
    /\ lastEvent.event.data.checkout.order[1].id # None
    => LET checkout == lastEvent.event.data.checkout
           absent(money) == money = None \/ money[1].amount = None
       IN  /\ lastCall # None
           /\ lastCall[1].name = "purchase"
           /\ lastCall[1].params.transaction_id = toString(checkout.order[1].id[1])
           /\ lastCall[1].params.tax =
                IF absent(checkout.totalTax) THEN Num(0)
                ELSE parseFloat(checkout.totalTax[1].amount)
           /\ lastCall[1].params.shipping =
                IF checkout.shippingLine = None \/ absent(checkout.shippingLine[1].price)
                THEN Num(0)
                ELSE parseFloat(checkout.shippingLine[1].price[1].amount)

====
